---- MODULE Spec2Model ----
(***************************************************************************)
(* Model of src/app.py: the Streamlit dashboard "Traspasos: Cuentas        *)
(* Administradas por las AFORE".  One user interaction re-runs main() from *)
(* top to bottom; load_data is memoized by st.cache_data.                   *)
(*                                                                         *)
(* A spreadsheet cell of column Fecha is a record [k, ym, d]:              *)
(*   k = "ts"  a timestamp, month number ym (year*12+month), day d         *)
(*   k = "nat" a null date (NaT / blank cell)                              *)
(*   k = "str" a text that reads YYYY-MM-DD for month ym, day d            *)
(*   k = "bad" a text that does not match YYYY-MM-DD                        *)
(* A row is [Fecha, Concepto, Datos]; Concepto is a string, NaN the null.  *)
(***************************************************************************)
EXTENDS Integers, Sequences, FiniteSets, TLC

\* ------------------------------------------------------------- bounds
ShortLen == 3
Extra == 0
MaxEdits == 1

\* ------------------------------------------------- program constants
periods == 36
seasonal_periods == 12

MinPoints == 2 * seasonal_periods

file_path == "traspasos.xlsx"
sheet_names == <<"Hoja1", "Hoja2">>
Sheets == {sheet_names[i] : i \in 1..Len(sheet_names)}
Keys == {<<file_path, s>> : s \in Sheets}
ModelOptions == <<"SARIMA", "Suavizado Exponencial">>

NaN == "<NaN>"
None == "<None>"

\* ------------------------------------------------------------- cells
Ts(ym, d) == [k |-> "ts", ym |-> ym, d |-> d]
NaT == [k |-> "nat", ym |-> 0, d |-> 0]
Str(ym, d) == [k |-> "str", ym |-> ym, d |-> d]
Bad == [k |-> "bad", ym |-> 0, d |-> 0]

Row(f, c, v) == [Fecha |-> f, Concepto |-> c, Datos |-> v]

\* SelectSeq with the predicate written inline
Column(df, col) == [i \in 1..Len(df) |-> df[i][col]]

\* ------------------------------------------------- spreadsheet contents
\* Category of row i: a few rows of other categories among the first ones,
\* that differ from "A" only by case, by a trailing blank, or are null.
ConceptoAt(i) ==
    CASE i = 2 -> "a"
      [] i = 4 -> "A "
      [] i = 5 -> NaN
      [] OTHER -> "A"

\* Month of row i: each category is a monthly series of its own, so row i
\* holds the month after the one of the row before it in its category.
MonthAt(i) == Cardinality({j \in 1..i : ConceptoAt(j) = ConceptoAt(i)})

FechaAt(style, i, n) ==
    LET ym == MonthAt(i)
    IN  CASE style = "ts_first" -> Ts(ym, 1)
          [] style = "ts_mid" -> Ts(ym, 15)
          [] style = "text" -> IF i = 3 THEN Bad ELSE Str(ym, 1)
          [] style = "text_badlast" -> IF i = n THEN Bad ELSE Str(ym, 1)
          [] style = "mixed" -> IF i = 2 THEN Bad
                                ELSE IF i % 3 = 0 THEN Ts(ym, 1) ELSE Str(ym, 1)
          [] OTHER -> NaT

MkSheet(n, style) ==
    [hasFecha |-> TRUE,
     rows |-> [i \in 1..n |-> Row(FechaAt(style, i, n), ConceptoAt(i), i)]]

NoFechaSheet == [hasFecha |-> FALSE, rows |-> <<>>]

LongLen == MinPoints + 3 + Extra

Catalog ==
    << MkSheet(LongLen, "ts_first"),
       MkSheet(LongLen, "ts_mid"),
       MkSheet(0, "ts_first"),
       MkSheet(LongLen, "text"),
       NoFechaSheet,
       MkSheet(LongLen - 1, "text_badlast"),
       MkSheet(LongLen, "mixed"),
       MkSheet(ShortLen, "ts_mid") >>

EditContents == {MkSheet(ShortLen, "ts_first"), MkSheet(0, "ts_first")}

\* ------------------------------------------------------------ Loader
\* dtype of the column as read_excel builds it: datetime64 (or float, all
\* blank) when no cell is a text, object otherwise and when there is no row.
IsObjectColumn(col) ==
    Len(col) = 0 \/ \E i \in 1..Len(col) : col[i].k \in {"str", "bad"}

\* pandas.api.types.is_string_dtype: an object column is a string column when
\* every element is a str; before pandas 2 every object column was one.
is_string_dtype(col, objectIsString) ==
    /\ IsObjectColumn(col)
    /\ objectIsString \/ \A i \in 1..Len(col) : col[i].k \in {"str", "bad"}

\* mutant: errors='ignore', a text that does not match is left as it is
to_datetime_ignore(cell) ==
    IF cell.k = "str" THEN Ts(cell.ym, cell.d) ELSE cell

\* pd.to_datetime(errors='coerce', format='%Y-%m-%d') on one element
to_datetime_coerce(cell) ==
    CASE cell.k = "str" -> Ts(cell.ym, cell.d)
      [] cell.k = "bad" -> NaT
      [] OTHER -> cell

\* load_data without the memoization: read_excel, then the Fecha conversion.
\* df['Fecha'] raises KeyError when the sheet has no such column.
read_and_convert(sheet, objectIsString) ==
    IF ~sheet.hasFecha THEN [ok |-> FALSE, df |-> <<>>]
    ELSE IF is_string_dtype(Column(sheet.rows, "Fecha"), objectIsString)
    THEN [ok |-> TRUE,
          df |-> [i \in 1..Len(sheet.rows) |->
                    [sheet.rows[i] EXCEPT !.Fecha = to_datetime_coerce(@)]]]
    ELSE [ok |-> TRUE, df |-> sheet.rows]

NotLoaded == [loaded |-> FALSE, rows |-> <<>>]

\* mutant: no memoization, every call is a miss
CacheLookup_miss(store, key) == NotLoaded

\* what st.cache_data does to a call whose key is already in the cache
CacheLookup(store, key) == store[key]

\* @st.cache_data load_data(file_path, sheet_name): the cached value when the
\* key is in the cache; otherwise the body runs and its result is stored
\* (nothing is stored when the body raises).
load_data(store, book, objectIsString, path, sheet_name) ==
    LET key == <<path, sheet_name>>
        hit == CacheLookup(store, key)
    IN  IF hit.loaded
        THEN [ok |-> TRUE, df |-> hit.rows, read |-> FALSE, cached |-> TRUE,
              store |-> store]
        ELSE LET r == read_and_convert(book[sheet_name], objectIsString)
             IN  [ok |-> r.ok, df |-> r.df, read |-> TRUE,
                  cached |-> store[key].loaded,
                  store |-> IF r.ok
                            THEN [store EXCEPT ![key] =
                                    [loaded |-> TRUE, rows |-> r.df]]
                            ELSE store]

\* ------------------------------------------------------------ Filter
\* mutant: the comparison ignores case and surrounding blanks
Fold(c) == IF c \in {"a", "A ", " a", " A"} THEN "A" ELSE c
EqConcepto_folded(cell, concepto) ==
    /\ cell # NaN
    /\ concepto # NaN
    /\ concepto # None
    /\ Fold(cell) = Fold(concepto)

\* elementwise == of a column with a scalar: exact string equality, and a
\* null (NaN, None) equals nothing, itself included
EqConcepto(cell, concepto) ==
    /\ cell # NaN
    /\ concepto # NaN
    /\ concepto # None
    /\ cell = concepto

\* df[df['Descripción del Concepto'] == concepto]: the rows whose mask is
\* True, in their order
Filter(df, concepto) ==
    LET mask(row) == EqConcepto(row.Concepto, concepto)
    IN  SelectSeq(df, mask)

\* Series.unique(): the distinct values in order of first appearance
unique(col) ==
    LET isFirst(i) == \A j \in 1..(i - 1) : col[j] # col[i]
        firsts == SelectSeq([i \in 1..Len(col) |-> i], isFirst)
    IN  [n \in 1..Len(firsts) |-> col[firsts[n]]]

\* mutant: the guard `if not filtered_df.empty` is dropped
IsEmpty_never(df) == FALSE

\* filtered_df.empty
IsEmpty(df) == Len(df) = 0

\* -------------------------------------------------------- Statistics
SeqSum(s) ==
    LET upto[i \in 0..Len(s)] == IF i = 0 THEN 0 ELSE upto[i - 1] + s[i]
    IN  upto[Len(s)]

SeqMin(s) == IF Len(s) = 0 THEN 0 ELSE CHOOSE x \in {s[i] : i \in 1..Len(s)} :
                \A j \in 1..Len(s) : x <= s[j]

SeqMax(s) == IF Len(s) = 0 THEN 0 ELSE CHOOSE x \in {s[i] : i \in 1..Len(s)} :
                \A j \in 1..Len(s) : x >= s[j]

NoStats == [count |-> 0, sum |-> 0, min |-> 0, max |-> 0]

\* filtered_df['Datos'].describe(): count, min and max; the mean is kept as
\* the sum it is the quotient of (std and the quartiles are not modelled).
\* Of an empty column the count is 0 and the others are null, written 0.
describe(data) ==
    [count |-> Len(data), sum |-> SeqSum(data),
     min |-> SeqMin(data), max |-> SeqMax(data)]

\* -------------------------------------------------------- Forecaster
\* pd.to_datetime(filtered_df['Fecha']) (errors='raise'): a text that is no
\* date raises; a text that is one becomes a timestamp
CanParse(col) == \A i \in 1..Len(col) : col[i].k # "bad"

\* mutant: the range starts at the period after start
date_range_after(start, n) == [i \in 1..n |-> Ts(start.ym + i, 1)]

\* mutant: the range is one date short
date_range_short(start, n) ==
    [i \in 1..(n - 1) |->
        Ts((IF start.d = 1 THEN start.ym ELSE start.ym + 1) + i - 1, 1)]

\* pd.date_range(start, periods=n, freq='MS'): n month starts, the first one
\* the month start on or after start (start itself when it is a first day)
date_range(start, n) ==
    LET first == IF start.d = 1 THEN start.ym ELSE start.ym + 1
    IN  [i \in 1..n |-> Ts(first + i - 1, 1)]

\* get_forecast(steps).predicted_mean / forecast(steps) of a fitted model:
\* steps point predictions (here a line through the fitted level)
predicted_mean(fit, steps) == [i \in 1..steps |-> fit.level + i * fit.slope]

\* what the library's fit returned: a failure, or a fitted model
FitFailed == [ok |-> FALSE, level |-> 0, slope |-> 0]
FitOutcomes == {FitFailed, [ok |-> TRUE, level |-> 50, slope |-> 1]}

\* what a run meets outside the program: whether pd.ExcelFile can open the
\* file, and what the fit returns
RunInputs ==
    {[readable |-> FALSE, fit |-> FitFailed]}
    \cup {[readable |-> TRUE, fit |-> f] : f \in FitOutcomes}

\* pd.DataFrame({'Fecha': ..., 'Datos': ...}): raises when the two columns
\* differ in length
DataFrame(fechas, datos) ==
    IF Len(fechas) # Len(datos)
    THEN [ok |-> FALSE, df |-> <<>>]
    ELSE [ok |-> TRUE,
          df |-> [i \in 1..Len(fechas) |->
                    [Fecha |-> fechas[i], Datos |-> datos[i]]]]

NoForecast(err, fitted) == [error |-> err, fits |-> fitted, future_df |-> <<>>]

\* the body of either branch of `if model_option == ...`: the two differ only
\* in the model that is fitted.  The library cannot fit an empty array.
forecast_branch(filtered_df, model_option, fit) ==
    LET fechas == Column(filtered_df, "Fecha")
    IN  IF ~CanParse(fechas) THEN NoForecast("DateError", <<>>)
        ELSE IF Len(fechas) = 0 THEN NoForecast("FitError", <<model_option>>)
        ELSE
        LET dates == [i \in 1..Len(fechas) |-> to_datetime_coerce(fechas[i])]
            last == dates[Len(dates)]
        IN  IF ~fit.ok THEN NoForecast("FitError", <<model_option>>)
            ELSE IF last.k = "nat"
            THEN NoForecast("DateError", <<model_option>>)
            ELSE
            LET future_dates == date_range(last, periods)
                future_preds == predicted_mean(fit, periods)
                frame == DataFrame(future_dates, future_preds)
            IN  IF ~frame.ok THEN NoForecast("LengthError", <<model_option>>)
                ELSE [error |-> "none", fits |-> <<model_option>>,
                      future_df |-> frame.df]

\* mutant: when the fit fails the other model is fitted instead
OtherModel(m) == IF m = ModelOptions[1] THEN ModelOptions[2] ELSE ModelOptions[1]
Forecaster_fallback(filtered_df, model_option, fit) ==
    LET first == forecast_branch(filtered_df, model_option, fit)
        second == forecast_branch(filtered_df, OtherModel(model_option),
                                  [ok |-> TRUE, level |-> 50, slope |-> 1])
    IN  IF first.error = "FitError"
        THEN [second EXCEPT !.fits = first.fits \o second.fits]
        ELSE first

\* if model_option == 'SARIMA': ... elif model_option == 'Suavizado
\* Exponencial': ...
Forecaster(filtered_df, model_option, fit) ==
    forecast_branch(filtered_df, model_option, fit)

\* ---------------------------------------------------------- Combiner
\* mutant: the forecast row at the seam is dropped
concat_skip_seam(filtered_df, future_df) ==
    [i \in 1..Len(filtered_df) |->
        [Fecha |-> filtered_df[i].Fecha, Datos |-> filtered_df[i].Datos]]
    \o Tail(future_df)

\* pd.concat([filtered_df[['Fecha', 'Datos']], future_df])
concat(filtered_df, future_df) ==
    [i \in 1..Len(filtered_df) |->
        [Fecha |-> filtered_df[i].Fecha, Datos |-> filtered_df[i].Datos]]
    \o future_df

\* ----------------------------------------------------------- widgets
\* The session's state of one st.selectbox: the options it was drawn with and
\* the index the user chose.
NoWidget == [opts |-> <<>>, idx |-> 0]

\* mutant: the earlier choice is returned though the options changed
selectbox_stale(options, st) ==
    IF st.idx \in 1..Len(st.opts)
    THEN [value |-> st.opts[st.idx], st |-> st]
    ELSE [value |-> IF Len(options) = 0 THEN None ELSE options[1],
          st |-> [opts |-> options, idx |-> IF Len(options) = 0 THEN 0 ELSE 1]]

\* st.selectbox(label, options): the user's choice when the widget was drawn
\* with these options before, the first option otherwise, None without options
selectbox(options, st) ==
    LET idx == IF st.opts = options /\ st.idx \in 1..Len(options) THEN st.idx
               ELSE IF Len(options) = 0 THEN 0 ELSE 1
    IN  [value |-> IF idx = 0 THEN None ELSE options[idx],
         st |-> [opts |-> options, idx |-> idx]]

\* -------------------------------------------------------------- main
NoOut ==
    [ran |-> FALSE, stages |-> <<>>, error |-> "none", shown |-> {},
     sheet |-> None, cached |-> FALSE, read |-> FALSE, df |-> <<>>,
     options |-> <<>>, concepto |-> None, filtered_df |-> <<>>,
     stats |-> NoStats, model_option |-> None, fits |-> <<>>,
     future_df |-> <<>>, combined_df |-> <<>>, notice |-> FALSE]

\* One run of main().  ws is the session's widget state, store the
\* st.cache_data cache, book the sheets of the file, readable whether the file
\* can be opened, fit what the library's fit will return.  An uncaught
\* exception ends the run where it is raised and keeps the widget state of the
\* widgets not drawn; a run that ends normally forgets it.
main(ws, store, book, readable, objectIsString, fit) ==
    IF ~readable
    THEN [out |-> [NoOut EXCEPT !.ran = TRUE, !.error = "IOError"],
          store |-> store, ws |-> ws]
    ELSE
    LET sel == selectbox(sheet_names, ws.sheet)
        selected_sheet == sel.value
        ld == load_data(store, book, objectIsString, file_path, selected_sheet)
        o1 == [NoOut EXCEPT !.ran = TRUE, !.shown = {"sheet"},
                            !.sheet = selected_sheet, !.stages = <<"Loader">>,
                            !.cached = ld.cached, !.read = ld.read]
        w1 == [ws EXCEPT !.sheet = sel.st]
    IN  IF ~ld.ok
        THEN [out |-> [o1 EXCEPT !.error = "KeyError"],
              store |-> ld.store, ws |-> w1]
        ELSE
        LET df == ld.df
            csel == selectbox(unique(Column(df, "Concepto")), ws.concepto)
            concepto == csel.value
            filtered_df == Filter(df, concepto)
            o2 == [o1 EXCEPT !.df = df, !.options = csel.st.opts,
                             !.concepto = concepto,
                             !.filtered_df = filtered_df,
                             !.shown = {"sheet", "concepto"},
                             !.stages = <<"Loader", "Filter">>]
            w2 == [w1 EXCEPT !.concepto = csel.st]
        IN  IF IsEmpty(filtered_df)
            THEN [out |-> [o2 EXCEPT !.notice = TRUE,
                              !.stages = <<"Loader", "Filter", "Notice">>],
                  store |-> ld.store,
                  ws |-> [w2 EXCEPT !.model = NoWidget]]
            ELSE
            LET stats == describe(Column(filtered_df, "Datos"))
                msel == selectbox(ModelOptions, ws.model)
                model_option == msel.value
                fc == Forecaster(filtered_df, model_option, fit)
                o3 == [o2 EXCEPT !.stats = stats,
                         !.model_option = model_option,
                         !.shown = {"sheet", "concepto", "model"},
                         !.fits = fc.fits,
                         !.stages = <<"Loader", "Filter", "Statistics",
                                      "Forecaster">>]
                w3 == [w2 EXCEPT !.model = msel.st]
            IN  IF fc.error # "none"
                THEN [out |-> [o3 EXCEPT !.error = fc.error],
                      store |-> ld.store, ws |-> w3]
                ELSE [out |-> [o3 EXCEPT
                                 !.future_df = fc.future_df,
                                 !.combined_df =
                                    concat(filtered_df, fc.future_df),
                                 !.stages = <<"Loader", "Filter", "Statistics",
                                              "Forecaster", "Combiner">>],
                      store |-> ld.store, ws |-> w3]

\* ------------------------------------------------------------- state
VARIABLES
    workbook,        \* the sheets of traspasos.xlsx as they are on disk
    objectIsString,  \* is_string_dtype is TRUE of every object column (pandas 1)
    edits,           \* how many times the file was rewritten
    cache,           \* st.cache_data's entries of load_data, by (path, sheet)
    firstLoad,       \* history: what the first call for each key returned
    widgets,         \* the session's widget state
    out              \* what the last run of main() displayed

vars == <<workbook, objectIsString, edits, cache, firstLoad, widgets, out>>

Shift(i) == (i % Len(Catalog)) + 1

Init ==
    /\ \E i \in 1..Len(Catalog) :
          workbook = [s \in Sheets |->
                        IF s = sheet_names[1] THEN Catalog[i]
                        ELSE Catalog[Shift(i)]]
    /\ objectIsString \in BOOLEAN
    /\ edits = 0
    /\ cache = [key \in Keys |-> NotLoaded]
    /\ firstLoad = [key \in Keys |-> NotLoaded]
    /\ widgets = [sheet |-> NoWidget, concepto |-> NoWidget, model |-> NoWidget]
    /\ out = NoOut

Did(o, stage) == \E i \in 1..Len(o.stages) : o.stages[i] = stage

\* mutant: the statistics of the run before are kept while the category
\* selected is the same
Run_reuse(ws) ==
    \E in \in RunInputs :
        LET r == main(ws, cache, workbook, in.readable, objectIsString, in.fit)
            key == <<file_path, r.out.sheet>>
        IN  /\ out' = IF /\ Did(out, "Statistics")
                          /\ Did(r.out, "Statistics")
                          /\ r.out.concepto = out.concepto
                       THEN [r.out EXCEPT !.stats = out.stats]
                       ELSE r.out
            /\ cache' = r.store
            /\ widgets' = r.ws
            /\ firstLoad' =
                 IF r.out.sheet \in Sheets /\ r.out.error # "KeyError"
                    /\ ~firstLoad[key].loaded
                 THEN [firstLoad EXCEPT ![key] =
                         [loaded |-> TRUE, rows |-> r.out.df]]
                 ELSE firstLoad
            /\ UNCHANGED <<workbook, objectIsString, edits>>

\* the script runs with widget state ws; whether pd.ExcelFile can open the file
\* and what the fit returns are the run's inputs from outside
Run(ws) ==
    \E in \in RunInputs :
        LET r == main(ws, cache, workbook, in.readable, objectIsString, in.fit)
            key == <<file_path, r.out.sheet>>
        IN  /\ out' = r.out
            /\ cache' = r.store
            /\ widgets' = r.ws
            /\ firstLoad' =
                 IF r.out.sheet \in Sheets /\ r.out.error # "KeyError"
                    /\ ~firstLoad[key].loaded
                 THEN [firstLoad EXCEPT ![key] =
                         [loaded |-> TRUE, rows |-> r.out.df]]
                 ELSE firstLoad
            /\ UNCHANGED <<workbook, objectIsString, edits>>

\* the page is opened or reloaded: main() runs with the widgets as they are
Rerun == Run(widgets)

\* the user picks a sheet in 'Selecciona una Hoja'
SelectSheet ==
    /\ "sheet" \in out.shown
    /\ \E i \in 1..Len(sheet_names) :
          /\ sheet_names[i] # out.sheet
          /\ Run([widgets EXCEPT !.sheet = [opts |-> sheet_names, idx |-> i]])

\* the user picks a category in 'Selecciona una Descripción del Concepto'
SelectConcepto ==
    /\ "concepto" \in out.shown
    /\ \E i \in 1..Len(out.options) :
          /\ out.options[i] # out.concepto
          /\ Run([widgets EXCEPT !.concepto = [opts |-> out.options, idx |-> i]])

\* the user picks a model in 'Selecciona un modelo de predicción'
SelectModel ==
    /\ "model" \in out.shown
    /\ \E i \in 1..Len(ModelOptions) :
          /\ ModelOptions[i] # out.model_option
          /\ Run([widgets EXCEPT !.model = [opts |-> ModelOptions, idx |-> i]])

\* environment: a sheet of the file is rewritten on disk
ModifyFile ==
    /\ edits < MaxEdits
    /\ \E s \in Sheets, t \in EditContents :
          /\ workbook[s] # t
          /\ workbook' = [workbook EXCEPT ![s] = t]
    /\ edits' = edits + 1
    /\ UNCHANGED <<objectIsString, cache, firstLoad, widgets, out>>

Next ==
    \/ Rerun
    \/ SelectSheet
    \/ SelectConcepto
    \/ SelectModel
    \/ ModifyFile

Spec == Init /\ [][Next]_vars

\* ------------------------------------------------------------- claims
Ran(stage) == Did(out, stage)

N == Len(out.filtered_df)

\* the dates of the filtered series as the forecaster reads them
HistDate(i) == to_datetime_coerce(out.filtered_df[i].Fecha)

ValidSeries == \A i \in 1..N : HistDate(i).k = "ts"

MonthlyForecast ==
    /\ Len(out.future_df) = periods
    /\ \A i \in 1..(Len(out.future_df) - 1) :
          /\ out.future_df[i + 1].Fecha.ym = out.future_df[i].Fecha.ym + 1
          /\ out.future_df[i + 1].Fecha.d = out.future_df[i].Fecha.d
    /\ \A i \in 1..Len(out.future_df) : out.future_df[i].Fecha.k = "ts"

\* C1 as stated: for either model and a valid filtered series of at least 24
\* monthly points, the forecast has exactly 36 rows, one month apart and
\* strictly increasing, and its first date is the last historical date.
C1_StartsAtLastDate ==
    (Ran("Combiner") /\ N >= MinPoints /\ ValidSeries) =>
        /\ MonthlyForecast
        /\ out.future_df[1].Fecha = HistDate(N)

\* C1 amended: for either model and a valid filtered series of at least 24
\* monthly points, the forecast has exactly 36 rows, one month apart and
\* strictly increasing, all first days of a month; its first date is the last
\* historical date when that is a first day of a month, and the first day of
\* the month after it otherwise.
C1_StartsAtMonthStart ==
    (Ran("Combiner") /\ N >= MinPoints /\ ValidSeries) =>
        /\ MonthlyForecast
        /\ out.model_option \in {"SARIMA", "Suavizado Exponencial"}
        /\ out.future_df[1].Fecha.d = 1
        /\ HistDate(N).d = 1 => out.future_df[1].Fecha = HistDate(N)
        /\ HistDate(N).d # 1 => out.future_df[1].Fecha.ym = HistDate(N).ym + 1

C1_Witness ==
    /\ Ran("Combiner") /\ N >= MinPoints /\ ValidSeries
    /\ out.model_option = "Suavizado Exponencial"
    /\ HistDate(N).d # 1

\* C2: the combined series has N + 36 rows, the first N the filtered series
\* (Fecha and Datos, in order), the last 36 the forecast series.
C2_CombinedIsConcatenation ==
    Ran("Combiner") =>
        /\ Len(out.combined_df) = N + periods
        /\ \A i \in 1..N :
              /\ out.combined_df[i].Fecha = out.filtered_df[i].Fecha
              /\ out.combined_df[i].Datos = out.filtered_df[i].Datos
        /\ \A j \in 1..periods : out.combined_df[N + j] = out.future_df[j]

\* the seam holds the same date twice: the last historical row and the first
\* forecast row
C2_Witness ==
    /\ Ran("Combiner")
    /\ Len(out.combined_df) = N + periods
    /\ out.combined_df[N].Fecha = out.combined_df[N + 1].Fecha

Probes == {"A", "a", "A ", " a", "B", NaN, None}

Present(df, c) == \E i \in 1..Len(df) : df[i].Concepto = c

\* the rows of df whose category is exactly c, in their order
RowsOf(df, c) ==
    LET at == {i \in 1..Len(df) : df[i].Concepto = c}
        nth[k \in 1..Cardinality(at)] ==
            CHOOSE i \in at : Cardinality({j \in at : j < i}) = k - 1
    IN  [k \in 1..Cardinality(at) |-> df[nth[k]]]

\* C3: filtering the loaded table by a category value present in it returns
\* the rows whose category is exactly that value; by a value absent from it,
\* an empty result and no error.
C3_FilterExact ==
    Ran("Filter") =>
        /\ \A c \in Probes \ {NaN, None} :
              IF Present(out.df, c)
              THEN Filter(out.df, c) = RowsOf(out.df, c)
              ELSE Len(Filter(out.df, c)) = 0
        /\ \A i \in 1..N : out.filtered_df[i].Concepto = out.concepto
        /\ ~Present(out.df, out.concepto) =>
              N = 0 /\ out.error = "none"

C3_Witness ==
    /\ Ran("Filter")
    /\ out.concepto = "a"
    /\ N > 0
    /\ Present(out.df, "A") /\ Present(out.df, "A ")

OutKey == <<file_path, out.sheet>>

\* C4: a call of load_data with a (file path, sheet name) pair loaded before
\* returns the table the first call for the pair returned and does not read
\* the file; no entry is evicted, and no entry changes when another pair is
\* loaded.
C4_CacheKeepsFirstLoad ==
    /\ \A key \in Keys : firstLoad[key].loaded => cache[key] = firstLoad[key]
    /\ Ran("Filter") =>
          /\ firstLoad[OutKey].loaded
          /\ out.df = firstLoad[OutKey].rows
          /\ out.cached => ~out.read

\* the sheet was rewritten after its first load, the other sheet is loaded
\* too, and the run was served the first table from the cache
C4_Witness ==
    /\ Ran("Filter")
    /\ out.cached /\ ~out.read
    /\ \A key \in Keys : cache[key].loaded
    /\ workbook[out.sheet].hasFecha
    /\ read_and_convert(workbook[out.sheet], objectIsString).df # out.df

\* C5: when the filtered result is empty the run computes no statistics, fits
\* no model, builds no forecast and no combined series, and ends with the
\* 'no data' notice and no error; when it is not empty the notice is not shown.
C5_EmptyShowsNotice ==
    Ran("Filter") =>
        /\ N = 0 =>
              /\ out.stats = NoStats
              /\ Len(out.fits) = 0
              /\ Len(out.future_df) = 0
              /\ Len(out.combined_df) = 0
              /\ out.notice
              /\ out.error = "none"
              /\ out.stages = <<"Loader", "Filter", "Notice">>
        /\ N > 0 => ~out.notice /\ ~Ran("Notice")

C5_Witness ==
    /\ Ran("Filter")
    /\ N = 0
    /\ Len(out.df) > 0
    /\ out.notice

\* C6 as stated: with fewer than 24 points the forecaster either produces a
\* forecast of exactly 36 points or fails with a fit error.
C6_OnlyFitError ==
    (Ran("Forecaster") /\ N < MinPoints) =>
        \/ out.error = "none" /\ Len(out.future_df) = periods
        \/ out.error = "FitError" /\ Len(out.future_df) = 0

\* C6 amended: with fewer than 24 points the forecaster either produces a
\* forecast of exactly 36 points (36 dates and 36 values), or fails with a fit
\* error, or fails with a date error (a Fecha text that is no date, or a null
\* last Fecha); it never yields a forecast of fewer than 36 points.
C6_ForecastOrError ==
    (Ran("Forecaster") /\ N < MinPoints) =>
        \/ /\ out.error = "none"
           /\ Len(out.future_df) = periods
           /\ Ran("Combiner")
        \/ /\ out.error \in {"FitError", "DateError"}
           /\ Len(out.future_df) = 0
           /\ ~Ran("Combiner")

C6_Witness ==
    /\ Ran("Forecaster") /\ N < MinPoints /\ N > seasonal_periods
    /\ out.error = "DateError"
    /\ Len(out.fits) = 1

AllText(col) == \A i \in 1..Len(col) : col[i].k \in {"str", "bad"}
NoText(col) == \A i \in 1..Len(col) : col[i].k \in {"ts", "nat"}

\* C7: of a sheet whose Fecha column is text, load_data turns every value that
\* reads YYYY-MM-DD into that date and every other value into a null date,
\* without failing and keeping the rows and their order; a Fecha column that
\* is not text is returned unchanged.
C7_TextDatesCoerced ==
    \A s \in Sheets :
        workbook[s].hasFecha =>
            LET raw == workbook[s].rows
                r == read_and_convert(workbook[s], objectIsString)
                col == Column(raw, "Fecha")
            IN  /\ r.ok
                /\ Len(r.df) = Len(raw)
                /\ \A i \in 1..Len(raw) :
                      /\ r.df[i].Concepto = raw[i].Concepto
                      /\ r.df[i].Datos = raw[i].Datos
                /\ AllText(col) =>
                      \A i \in 1..Len(raw) :
                          /\ raw[i].Fecha.k = "str" =>
                                r.df[i].Fecha = Ts(raw[i].Fecha.ym, raw[i].Fecha.d)
                          /\ raw[i].Fecha.k = "bad" => r.df[i].Fecha = NaT
                /\ NoText(col) => r.df = raw

\* a text column with a value that is no date was loaded, and the table in
\* the cache holds a null date in its place
C7_Witness ==
    \E s \in Sheets :
        LET raw == workbook[s].rows
        IN  /\ workbook[s].hasFecha
            /\ cache[<<file_path, s>>].loaded
            /\ Len(cache[<<file_path, s>>].rows) = Len(raw)
            /\ AllText(Column(raw, "Fecha"))
            /\ \E i \in 1..Len(raw) :
                  /\ raw[i].Fecha.k = "bad"
                  /\ cache[<<file_path, s>>].rows[i].Fecha = NaT
            /\ \E i \in 1..Len(raw) :
                  /\ raw[i].Fecha.k = "str"
                  /\ cache[<<file_path, s>>].rows[i].Fecha.k = "ts"

\* C8: a failure while loading the sheet or while fitting the model ends the
\* run: no later stage runs, the fit is not tried again and the other model is
\* not fitted.
C8_FailureEndsRun ==
    /\ out.error \in {"IOError", "KeyError"} =>
          /\ out.stages \in {<<>>, <<"Loader">>}
          /\ Len(out.df) = 0 /\ N = 0
          /\ out.stats = NoStats
          /\ Len(out.fits) = 0
          /\ Len(out.future_df) = 0 /\ Len(out.combined_df) = 0
          /\ ~out.notice
    /\ out.error = "FitError" =>
          /\ out.stages = <<"Loader", "Filter", "Statistics", "Forecaster">>
          /\ Len(out.future_df) = 0 /\ Len(out.combined_df) = 0
    /\ Len(out.fits) <= 1
    /\ Len(out.fits) = 1 => out.fits[1] = out.model_option

C8_Witness ==
    /\ out.error = "FitError"
    /\ out.fits = <<"SARIMA">>
    /\ N >= MinPoints

WidgetValue(w) == IF w.idx = 0 THEN None ELSE w.opts[w.idx]

StageOrders ==
    {<<>>, <<"Loader">>, <<"Loader", "Filter", "Notice">>,
     <<"Loader", "Filter", "Statistics", "Forecaster">>,
     <<"Loader", "Filter", "Statistics", "Forecaster", "Combiner">>}

\* C9: after any sequence of interactions, what is displayed is computed from
\* the current selections: the stages ran in the order Loader, Filter,
\* Statistics, Forecaster (one model), Combiner, the table is the memoized
\* load of the selected sheet, and the filtered series, the statistics, the
\* forecast and the combined series are those of the selected category and
\* model.
C9_DisplayedFromCurrentSelections ==
    /\ out.stages \in StageOrders
    /\ Ran("Loader") => out.sheet = WidgetValue(widgets.sheet)
    /\ Ran("Filter") =>
          /\ out.df = cache[OutKey].rows
          /\ out.concepto = WidgetValue(widgets.concepto)
          /\ out.filtered_df = Filter(cache[OutKey].rows, out.concepto)
    /\ Ran("Statistics") =>
          /\ out.stats = describe(Column(out.filtered_df, "Datos"))
          /\ out.model_option = WidgetValue(widgets.model)
    /\ Ran("Combiner") =>
          /\ out.fits = <<out.model_option>>
          /\ Column(out.future_df, "Fecha") = date_range(HistDate(N), periods)
          /\ out.combined_df = concat(out.filtered_df, out.future_df)

\* the sheet, the category and the model were all changed by the user
C9_Witness ==
    /\ Ran("Combiner")
    /\ out.sheet = sheet_names[2]
    /\ out.concepto # out.options[1]
    /\ out.model_option = ModelOptions[2]
    /\ \A key \in Keys : cache[key].loaded

\* C10: the category filtered by is one of the distinct values of the category
\* column of the loaded table (None when the table has no rows), so the
\* filtered result is empty, and the 'no data' notice shown, only when the
\* table has no rows or the chosen category is null.
C10_ConceptoFromTable ==
    Ran("Filter") =>
        /\ out.options = unique(Column(out.df, "Concepto"))
        /\ IF Len(out.df) = 0
           THEN out.concepto = None
           ELSE Present(out.df, out.concepto)
        /\ (N = 0) <=> (Len(out.df) = 0 \/ out.concepto = NaN)
        /\ out.notice => (Len(out.df) = 0 \/ out.concepto = NaN)

C10_Witness ==
    /\ Ran("Filter")
    /\ out.notice
    /\ out.concepto = NaN
    /\ Len(out.df) > 0

====
